---- MODULE Spec2Model ----
(***************************************************************************)
(* A model of the Atlassian tool server (mcp-server/) and of the agent     *)
(* providers (src/providers/, src/agent_sdk.py).                           *)
(*                                                                         *)
(* Six specifications share the module:                                    *)
(*   Spec          the server process: registration, then the dispatch    *)
(*                  loop that server.run drives over the stdio transport;  *)
(*   FairSpec      Spec with the fairness of the event loop;               *)
(*   HandlerSpec   each tool handler coroutine applied to an argument      *)
(*                  mapping and an outcome of the REST calls it makes;     *)
(*   ProviderSpec  the chat surface of the providers;                      *)
(*   CliSpec       the command line entry point (src/main.py) and the      *)
(*                  interactive session of src/agent_sdk.py;               *)
(*   WikiSpec      successive update_confluence_page calls on one page.    *)
(*                                                                         *)
(* Texts are sequences of string tokens; a text "begins with Error" when   *)
(* its first token is the literal "Error".                                 *)
(***************************************************************************)
EXTENDS Naturals, Sequences, FiniteSets, TLC

VARIABLES
    phase,          \* server process: "Idle", "Imported", "Running",
                    \* "Terminated", "Aborted" by a configuration error,
                    \* or "Stopped" / "Killed" by an interrupt
    server_config,  \* the tool server's configuration, read from the environment
    slot,           \* the function held by request_handlers[CallToolRequest]
    registered,     \* the functions decorated so far, in decoration order
    sent,           \* number of requests the peer has written
    inbound,        \* requests written by the peer, not yet read
    inboundClosed,  \* the peer has closed the inbound stream
    received,       \* requests read by the transport, not yet handled
    running,        \* the requests whose handler has started and not returned
    pending,        \* responses produced, not yet written
    outbound,       \* ids of the responses written, in order of writing
    handled,        \* the outcome of the most recent request handled
    errorIds,       \* ids of the requests whose result was an error
    closedDuring,   \* ids of the requests in a handler when the peer closed
    firstCatalog,   \* the first list_tools request handled and its result
    call,           \* HandlerSpec: the most recent handler invocation
    prov,           \* ProviderSpec: the constructed provider, or NoProvider
    pc,             \* ProviderSpec: position of the chat call in progress
    turn,           \* ProviderSpec: the chat call in progress
    acquired,       \* ProviderSpec: tool-server sessions acquired so far
    released,       \* ProviderSpec: tool-server sessions released so far
    chats,          \* ProviderSpec: chat calls completed so far
    failedChats,    \* ProviderSpec: chat calls that returned an error string
    lastChat,       \* ProviderSpec: the outcome of the last chat call
    factory,        \* ProviderSpec: the last call of create_agent_provider
    cli,            \* CliSpec: the run of main and of the interactive session
    wiki,           \* the wiki's page as stored remotely, and the updates made
    module_tools    \* the module-level lists JIRA_TOOLS and CONFLUENCE_TOOLS
                    \* as they stand in the server process

serverVars == <<phase, slot, registered, sent, inbound, inboundClosed,
                received, running, pending, outbound, handled, errorIds,
                closedDuring, firstCatalog,
                server_config>>
providerVars == <<prov, pc, turn, acquired, released, chats, failedChats,
                  lastChat, factory>>
vars == <<serverVars, call, providerVars, cli, wiki, module_tools>>

---------------------------------------------------------------------------
(* Bounds *)

MaxRequests == 3      \* requests the peer writes in one run
MaxItems == 2         \* issues or pages a remote query returns
MaxRestCalls == 2     \* REST calls whose outcome is drawn per invocation
MaxChats == 3         \* chat calls in one run
MaxInputs == 3        \* inputs the interactive session reads in one run
MaxUpdates == 3       \* update_confluence_page calls made on the page

---------------------------------------------------------------------------
(* Values, argument mappings, texts *)

None == "<None>"
Vals == {None, "", "x"}

False == "<False>"

\* Python truthiness of an argument value
Truthy(v) == v \notin {None, "", False}

\* arguments.get(k, d)
Get(args, k, d) == IF k \in DOMAIN args THEN args[k] ELSE d

\* any([...]) where all([...]) is meant
All_Any(vs) == \E i \in 1..Len(vs) : Truthy(vs[i])

\* all([...])
All(vs) == \A i \in 1..Len(vs) : Truthy(vs[i])

ArgSpace(keys) == UNION {[K -> Vals] : K \in SUBSET keys}

EmptyArgs == [k \in {} |-> None]

StartsWithError(text) == Len(text) > 0 /\ text[1] = "Error"

\* config of the tool server (atlassian_mcp/config.py)
jira_url == "https://jira.example"
confluence_url == "https://wiki.example"
user_email == "me@example.com"
confluence_space_key == "TEAM"

\* the settings validate_required_fields insists on
RequiredFields ==
    <<"jira_url", "jira_username", "jira_api_token", "confluence_url",
      "confluence_username", "confluence_api_token">>

\* Config(): each field is the environment variable's value, or ""
ServerConfigs ==
    [jira_url : {"", jira_url}, jira_username : {"", "svc"},
     jira_api_token : {"", "jira-token"},
     confluence_url : {"", confluence_url}, confluence_username : {"", "svc"},
     confluence_api_token : {"", "wiki-token"}]

NoConfig ==
    [jira_url |-> "", jira_username |-> "", jira_api_token |-> "",
     confluence_url |-> "", confluence_username |-> "",
     confluence_api_token |-> ""]

\* a validation that tests the two URLs only
validate_required_fields_UrlsOnly(cfg) ==
    (IF ~Truthy(cfg.jira_url) THEN <<"JIRA_URL is required">> ELSE <<>>)
    \o (IF ~Truthy(cfg.confluence_url)
        THEN <<"CONFLUENCE_URL is required">> ELSE <<>>)

\* Config.validate_required_fields: the list of errors; it raises
\* ValueError when the list is not empty
validate_required_fields(cfg) ==
    (IF ~Truthy(cfg.jira_url) THEN <<"JIRA_URL is required">> ELSE <<>>)
    \o (IF ~Truthy(cfg.jira_username)
        THEN <<"JIRA_USERNAME is required">> ELSE <<>>)
    \o (IF ~Truthy(cfg.jira_api_token)
        THEN <<"JIRA_API_TOKEN is required">> ELSE <<>>)
    \o (IF ~Truthy(cfg.confluence_url)
        THEN <<"CONFLUENCE_URL is required">> ELSE <<>>)
    \o (IF ~Truthy(cfg.confluence_username)
        THEN <<"CONFLUENCE_USERNAME is required">> ELSE <<>>)
    \o (IF ~Truthy(cfg.confluence_api_token)
        THEN <<"CONFLUENCE_API_TOKEN is required">> ELSE <<>>)

\* get_config: the configuration, or the ValueError of the validation
get_config(cfg) ==
    [raised |-> validate_required_fields(cfg) # <<>>,
     errors |-> validate_required_fields(cfg)]

---------------------------------------------------------------------------
(* The tool catalog *)

JIRA_TOOLS == <<
    [name |-> "search_jira_tickets", required |-> <<"jql">>,
     optional |-> <<"max_results">>],
    [name |-> "create_jira_ticket",
     required |-> <<"project_key", "summary", "description">>,
     optional |-> <<"issue_type">>],
    [name |-> "update_jira_ticket", required |-> <<"issue_key">>,
     optional |-> <<"summary", "description">>],
    [name |-> "add_jira_comment", required |-> <<"issue_key", "comment">>,
     optional |-> <<>>],
    [name |-> "get_my_sprint_tasks", required |-> <<>>,
     optional |-> <<"include_future_sprints", "max_results">>] >>

CONFLUENCE_TOOLS == <<
    [name |-> "search_confluence_pages", required |-> <<"query">>,
     optional |-> <<"space_key", "max_results">>],
    [name |-> "create_confluence_page", required |-> <<"title", "body">>,
     optional |-> <<"space_key", "parent_id">>],
    [name |-> "update_confluence_page", required |-> <<"page_id">>,
     optional |-> <<"title", "body">>],
    [name |-> "get_confluence_page_content", required |-> <<>>,
     optional |-> <<"page_id", "title", "space_key">>],
    [name |-> "get_recent_confluence_pages", required |-> <<>>,
     optional |-> <<"space_key", "max_results">>] >>

\* the two lists as the import of jira_tools.py and confluence_tools.py
\* leaves them
ImportedTools == [jira |-> JIRA_TOOLS, confluence |-> CONFLUENCE_TOOLS]

\* a catalog that lists the Jira tools only
list_tools_JiraOnly == module_tools.jira

\* list_tools: all_tools = JIRA_TOOLS + CONFLUENCE_TOOLS, read from the
\* module-level lists at the time of the call
list_tools == module_tools.jira \o module_tools.confluence

\* all_tools.extend(...) on JIRA_TOOLS itself: the call grows the module's
\* list
AfterListTools_Extend(lists) ==
    [lists EXCEPT !.jira = lists.jira \o lists.confluence]

\* the module-level lists after a call of list_tools: the + of two lists
\* builds a new list and leaves both operands as they were
AfterListTools(lists) == lists

Range(s) == {s[i] : i \in 1..Len(s)}

\* the descriptors declared in the source, in declaration order
Declared == JIRA_TOOLS \o CONFLUENCE_TOOLS

ToolNames == {Declared[i].name : i \in 1..Len(Declared)}

Descriptor(n) == CHOOSE d \in Range(Declared) : d.name = n

RequiredOf(n) == Range(Descriptor(n).required)

\* the argument keys a caller may send to tool n: those of its schema, and
\* for update_jira_ticket the status key its docstring also names
KeysOf(n) ==
    Range(Descriptor(n).required) \cup Range(Descriptor(n).optional)
    \cup (IF n = "update_jira_ticket" THEN {"status"} ELSE {})

---------------------------------------------------------------------------
(* Outcomes of the REST library calls made during one handler invocation *)

RestOutcomes == {"ok", "none", "raise"}

Envs == [rest : [1..MaxRestCalls -> RestOutcomes], n : 0..MaxItems]

RestError == "HTTP 500"
NoneTypeGet == "'NoneType' object has no attribute 'get'"
NoneTypeIn == "argument of type 'NoneType' is not iterable"

\* a client method's outcome: st "ok" with val, or st "raise" with msg;
\* rest lists the REST operations performed; byClient says whether the
\* exception was raised by the client object's method
Ok(val, rest) ==
    [st |-> "ok", val |-> val, msg |-> <<>>, rest |-> rest, byClient |-> FALSE]
Raise(msg, rest, byClient) ==
    [st |-> "raise", val |-> <<>>, msg |-> msg, rest |-> rest,
     byClient |-> byClient]

Op(name, arg) == [op |-> name, arg |-> arg]

Issue(i) == [key |-> "PROJ-" \o ToString(i), summary |-> "summary",
             status |-> "Open", priority |-> "High",
             issue_type |-> "None", assignee |-> "Unassigned"]
Issues(n) == [i \in 1..n |-> Issue(i)]

Page(i) == [id |-> ToString(i), title |-> "title", space |-> "TEAM",
            version |-> i]
Pages(n) == [i \in 1..n |-> Page(i)]

---------------------------------------------------------------------------
(* JiraClient (atlassian_mcp/jira_client.py) *)

RestFailure(o) == IF o = "none" THEN NoneTypeGet ELSE RestError

JiraClient_search_jira_tickets(jql, env, i) ==
    LET o == env.rest[i]
        rest == <<Op("jql", jql)>>
    IN  IF o = "ok" THEN Ok(Issues(env.n), rest)
        ELSE Raise(<<"Failed to search Jira tickets: ", RestFailure(o)>>,
                   rest, TRUE)

JiraClient_get_my_issues(additional_jql, env, i) ==
    LET base == <<"assignee = \"", user_email, "\"">>
        more == IF Truthy(additional_jql)
                THEN <<" AND ", additional_jql>> ELSE <<>>
        jql == base \o more \o <<" ORDER BY priority DESC, updated DESC">>
    IN  JiraClient_search_jira_tickets(jql, env, i)

JiraClient_get_sprint_issues(include_future_sprints, env, i) ==
    LET sprint_filter ==
            IF Truthy(include_future_sprints)
            THEN "sprint in openSprints() OR sprint in futureSprints()"
            ELSE "sprint in openSprints()"
    IN  JiraClient_get_my_issues(sprint_filter, env, i)

NewKey(env) == "PROJ-10" \o ToString(env.n)

JiraClient_create_jira_ticket(project_key, summary, description, issue_type, env, i) ==
    LET o == env.rest[i]
        rest == <<Op("create_issue",
                     <<project_key, summary, description, issue_type>>)>>
    IN  IF o = "ok" THEN Ok([none |-> FALSE, key |-> NewKey(env)], rest)
        ELSE IF o = "none" THEN Ok([none |-> TRUE], rest)
        ELSE Raise(<<"Failed to create Jira ticket: ", RestError>>, rest, TRUE)

\* fields: the sequence of <<key, value>> pairs passed as **fields
JiraClient_update_jira_ticket(issue_key, fields, env, i) ==
    LET o1 == env.rest[i]
        o2 == env.rest[i + 1]
        upd == Op("update_issue_field", <<issue_key>> \o fields)
        get == Op("issue", <<issue_key>>)
    IN  IF o1 = "raise"
        THEN Raise(<<"Failed to update Jira ticket: ", RestError>>,
                   <<upd>>, TRUE)
        ELSE IF o2 = "raise"
        THEN Raise(<<"Failed to update Jira ticket: ", RestError>>,
                   <<upd, get>>, TRUE)
        ELSE IF o2 = "none" THEN Ok([none |-> TRUE], <<upd, get>>)
        ELSE Ok([none |-> FALSE, key |-> issue_key, summary |-> "summary",
                 status |-> "Open"], <<upd, get>>)

JiraClient_add_jira_comment(issue_key, comment, env, i) ==
    LET o == env.rest[i]
        rest == <<Op("issue_add_comment", <<issue_key, comment>>)>>
    IN  IF o = "raise"
        THEN Raise(<<"Failed to add comment to Jira ticket: ", RestError>>,
                   rest, TRUE)
        ELSE Ok([none |-> (o = "none")], rest)

\* f"{config.jira_url}/browse/{issue_key}"
IssueUrl(key) == jira_url \o "/browse/" \o key

---------------------------------------------------------------------------
(* Handlers of atlassian_mcp/jira_tools.py *)

\* a handler's return: the content blocks, the REST operations performed,
\* whether a client method raised, whether an exception left the handler
Reply(text) ==
    [blocks |-> <<text>>, rest |-> <<>>, clientRaised |-> FALSE,
     raised |-> FALSE]

\* the handler without its except clause: the exception leaves the handler
HandlerCatch_Propagate(r, what) ==
    IF r.st = "raise"
    THEN [blocks |-> <<>>, rest |-> r.rest, clientRaised |-> r.byClient,
          raised |-> TRUE]
    ELSE [blocks |-> <<r.val>>, rest |-> r.rest, clientRaised |-> FALSE,
          raised |-> FALSE]

\* try: ... return [TextContent(text=result)]
\* except Exception as e: return [TextContent(text=f"Error <what>: {str(e)}")]
HandlerCatch(r, what) ==
    IF r.st = "raise"
    THEN [blocks |-> << <<"Error", what>> \o r.msg >>, rest |-> r.rest,
          clientRaised |-> r.byClient, raised |-> FALSE]
    ELSE [blocks |-> <<r.val>>, rest |-> r.rest, clientRaised |-> FALSE,
          raised |-> FALSE]

\* the per-issue text of a listing; search_jira_tickets prints the
\* "Type: ... | Assignee: ..." line for every issue (typed), get_my_sprint_tasks
\* does not; the issues carry no sprint and no story points
RECURSIVE IssueEntries(_, _, _)
IssueEntries(issues, i, typed) ==
    IF i > Len(issues) THEN <<>>
    ELSE <<ToString(i), ". [", issues[i].key, "] ", issues[i].summary, "\n",
           "   Status: ", issues[i].status, " | Priority: ",
           issues[i].priority, "\n">>
         \o (IF typed
             THEN <<"   Type: ", issues[i].issue_type, " | Assignee: ",
                    issues[i].assignee, "\n">>
             ELSE <<>>)
         \o <<"   URL: ", IssueUrl(issues[i].key), "\n\n">>
         \o IssueEntries(issues, i + 1, typed)

\* if not formatted_issues: return "<empty>"; else the header and entries
IssueListing(issues, empty, noun, typed) ==
    IF Len(issues) = 0 THEN <<empty>>
    ELSE <<"Found ", ToString(Len(issues)), noun>>
         \o IssueEntries(issues, 1, typed)

search_jira_tickets(arguments, env) ==
    LET jql == Get(arguments, "jql", "")
    IN  IF ~Truthy(jql)
        THEN Reply(<<"Error", ": 'jql' parameter is required">>)
        ELSE LET c == JiraClient_search_jira_tickets(<<jql>>, env, 1)
             IN  HandlerCatch(
                     IF c.st = "raise" THEN c
                     ELSE Ok(IssueListing(c.val,
                                 "No issues found matching the query.",
                                 " issue(s):\n\n", TRUE), c.rest),
                     " searching Jira tickets: ")

create_jira_ticket(arguments, env) ==
    LET project_key == Get(arguments, "project_key", "")
        summary == Get(arguments, "summary", "")
        description == Get(arguments, "description", "")
        issue_type == Get(arguments, "issue_type", "Task")
    IN  IF ~All(<<project_key, summary, description>>)
        THEN Reply(<<"Error",
                 ": 'project_key', 'summary', and 'description' are required">>)
        ELSE LET c == JiraClient_create_jira_ticket(project_key, summary,
                          description, issue_type, env, 1)
             IN  HandlerCatch(
                     IF c.st = "raise" THEN c
                     ELSE IF c.val.none
                     THEN Raise(<<NoneTypeGet>>, c.rest, FALSE)
                     ELSE Ok(<<"(U+2713) Created Jira ticket: ", c.val.key,
                               "\n", "Summary: ", summary, "\n",
                               "Type: ", issue_type, "\n",
                               "URL: ", IssueUrl(c.val.key), "\n">>, c.rest),
                     " creating Jira ticket: ")

\* fields built from the values that are not empty
UpdateFields_NonEmpty(arguments) ==
    (IF Truthy(Get(arguments, "summary", ""))
     THEN <<"summary", arguments["summary"]>> ELSE <<>>)
    \o (IF Truthy(Get(arguments, "description", ""))
        THEN <<"description", arguments["description"]>> ELSE <<>>)

\* the fields update_jira_ticket forwards: built from key presence
UpdateFields(arguments) ==
    (IF "summary" \in DOMAIN arguments
     THEN <<"summary", arguments["summary"]>> ELSE <<>>)
    \o (IF "description" \in DOMAIN arguments
        THEN <<"description", arguments["description"]>> ELSE <<>>)

update_jira_ticket(arguments, env) ==
    LET issue_key == Get(arguments, "issue_key", "")
        fields == UpdateFields(arguments)
    IN  IF ~Truthy(issue_key)
        THEN Reply(<<"Error", ": 'issue_key' is required">>)
        ELSE IF fields = <<>>
        THEN Reply(<<"Error",
                     ": At least one field to update must be provided">>)
        ELSE LET c == JiraClient_update_jira_ticket(issue_key, fields, env, 1)
             IN  HandlerCatch(
                     IF c.st = "raise" THEN c
                     ELSE IF c.val.none
                     THEN Raise(<<NoneTypeGet>>, c.rest, TRUE)
                     ELSE Ok(<<"(U+2713) Updated Jira ticket: ", issue_key,
                               "\n", "Summary: ", c.val.summary, "\n",
                               "Status: ", c.val.status, "\n",
                               "URL: ", IssueUrl(c.val.key), "\n">>, c.rest),
                     " updating Jira ticket: ")

add_jira_comment(arguments, env) ==
    LET issue_key == Get(arguments, "issue_key", "")
        comment == Get(arguments, "comment", "")
    IN  IF ~All(<<issue_key, comment>>)
        THEN Reply(<<"Error", ": 'issue_key' and 'comment' are required">>)
        ELSE LET c == JiraClient_add_jira_comment(issue_key, comment, env, 1)
             IN  HandlerCatch(
                     IF c.st = "raise" THEN c
                     ELSE Ok(<<"(U+2713) Added comment to Jira ticket: ",
                               issue_key, "\n", "Comment: ", comment, "\n">>,
                             c.rest),
                     " adding comment to Jira ticket: ")

get_my_sprint_tasks(arguments, env) ==
    LET include_future == Get(arguments, "include_future_sprints", False)
        c == JiraClient_get_sprint_issues(include_future, env, 1)
    IN  HandlerCatch(
            IF c.st = "raise" THEN c
            ELSE Ok(IssueListing(c.val, "No sprint tasks found.",
                                 " sprint task(s):\n\n", FALSE), c.rest),
            " getting sprint tasks: ")

---------------------------------------------------------------------------
(* ConfluenceClient (atlassian_mcp/confluence_client.py) *)

\* space_key or self.space_key
SpaceOr(space_key) ==
    IF Truthy(space_key) THEN space_key ELSE confluence_space_key

ConfluenceClient_search_confluence_pages(query, space_key, env, i) ==
    LET o == env.rest[i]
        search_space == SpaceOr(space_key)
        cql == <<"type=page AND text~\"", query, "\"">>
               \o (IF Truthy(search_space)
                   THEN <<" AND space=\"", search_space, "\"">> ELSE <<>>)
        rest == <<Op("cql", cql)>>
    IN  IF o = "ok" THEN Ok(Pages(env.n), rest)
        ELSE Raise(<<"Failed to search Confluence pages: ", RestFailure(o)>>,
                   rest, TRUE)

\* never raises: a REST failure is printed and None is returned
ConfluenceClient_get_page_by_title(title, space_key, env, i) ==
    LET o == env.rest[i]
        rest == <<Op("get_page_by_title", <<SpaceOr(space_key), title>>)>>
    IN  IF o = "ok"
        THEN Ok([none |-> FALSE, page |-> Page(1), printed |-> FALSE], rest)
        ELSE Ok([none |-> TRUE, page |-> Page(1), printed |-> (o = "raise")],
                rest)

ConfluenceClient_get_page_by_id(page_id, env, i) ==
    LET o == env.rest[i]
        rest == <<Op("get_page_by_id", <<page_id>>)>>
    IN  IF o = "raise"
        THEN Raise(<<"Failed to get page: ", RestError>>, rest, TRUE)
        ELSE Ok([none |-> (o = "none"), page |-> wiki.page, printed |-> FALSE],
                rest)

ConfluenceClient_create_confluence_page(title, body, space_key, parent_id, env, i) ==
    LET o == env.rest[i]
        rest == <<Op("create_page",
                     <<title, SpaceOr(space_key), body>>
                     \o (IF Truthy(parent_id) THEN <<parent_id>> ELSE <<>>))>>
    IN  IF o = "raise"
        THEN Raise(<<"Failed to create Confluence page: ", RestError>>,
                   rest, TRUE)
        ELSE Ok([none |-> (o = "none"), page |-> Page(env.n + 1)], rest)

\* an update that sends the version it read
ConfluenceClient_update_confluence_page_SameVersion(page_id, title, body, env, i) ==
    LET cur == ConfluenceClient_get_page_by_id(page_id, env, i)
        o2 == env.rest[i + 1]
        current_version == cur.val.page.version
        new_title == IF Truthy(title) THEN title ELSE cur.val.page.title
        upd == Op("update_page",
                  <<page_id, ToString(current_version), new_title>>
                  \o (IF Truthy(body) THEN <<body>> ELSE <<>>))
    IN  IF cur.st = "raise"
        THEN Raise(<<"Failed to update Confluence page: ">> \o cur.msg,
                   cur.rest, TRUE)
        ELSE IF cur.val.none
        THEN Raise(<<"Failed to update Confluence page: ", NoneTypeGet>>,
                   cur.rest, TRUE)
        ELSE IF o2 = "raise"
        THEN Raise(<<"Failed to update Confluence page: ", RestError>>,
                   cur.rest \o <<upd>>, TRUE)
        ELSE Ok([none |-> (o2 = "none"),
                 page |-> [id |-> page_id, title |-> new_title,
                           space |-> "TEAM",
                           version |-> current_version + 1]],
                cur.rest \o <<upd>>)

\* current_page = self.get_page_by_id(page_id); the update carries
\* current_version + 1, the title given or else the title read, and the
\* body when one is given
ConfluenceClient_update_confluence_page(page_id, title, body, env, i) ==
    LET cur == ConfluenceClient_get_page_by_id(page_id, env, i)
        o2 == env.rest[i + 1]
        current_version == cur.val.page.version
        new_title == IF Truthy(title) THEN title ELSE cur.val.page.title
        upd == Op("update_page",
                  <<page_id, ToString(current_version + 1), new_title>>
                  \o (IF Truthy(body) THEN <<body>> ELSE <<>>))
    IN  IF cur.st = "raise"
        THEN Raise(<<"Failed to update Confluence page: ">> \o cur.msg,
                   cur.rest, TRUE)
        ELSE IF cur.val.none
        THEN Raise(<<"Failed to update Confluence page: ", NoneTypeGet>>,
                   cur.rest, TRUE)
        ELSE IF o2 = "raise"
        THEN Raise(<<"Failed to update Confluence page: ", RestError>>,
                   cur.rest \o <<upd>>, TRUE)
        ELSE Ok([none |-> (o2 = "none"),
                 page |-> [id |-> page_id, title |-> new_title,
                           space |-> "TEAM",
                           version |-> current_version + 1]],
                cur.rest \o <<upd>>)

\* a lookup that prefers the title when both are given
ConfluenceClient_get_page_content_TitleFirst(page_id, title, space_key, env, i) ==
    IF Truthy(title)
    THEN LET p == ConfluenceClient_get_page_by_title(title, space_key, env, i)
         IN  IF p.val.none
             THEN Raise(<<"Page '", title, "' not found">>, p.rest, TRUE)
             ELSE Ok("<p>content of " \o p.val.page.id \o "</p>", p.rest)
    ELSE IF Truthy(page_id)
    THEN LET p == ConfluenceClient_get_page_by_id(page_id, env, i)
         IN  IF p.st = "raise" THEN p
             ELSE IF p.val.none THEN Raise(<<NoneTypeGet>>, p.rest, TRUE)
             ELSE Ok("<p>content of " \o p.val.page.id \o "</p>", p.rest)
    ELSE Raise(<<"Either page_id or title must be provided">>, <<>>, TRUE)

\* val: the page's body.storage.value
ConfluenceClient_get_page_content(page_id, title, space_key, env, i) ==
    IF Truthy(page_id)
    THEN LET p == ConfluenceClient_get_page_by_id(page_id, env, i)
         IN  IF p.st = "raise" THEN p
             ELSE IF p.val.none THEN Raise(<<NoneTypeGet>>, p.rest, TRUE)
             ELSE Ok("<p>content of " \o p.val.page.id \o "</p>", p.rest)
    ELSE IF Truthy(title)
    THEN LET p == ConfluenceClient_get_page_by_title(title, space_key, env, i)
         IN  IF p.val.none
             THEN Raise(<<"Page '", title, "' not found">>, p.rest, TRUE)
             ELSE Ok("<p>content of " \o p.val.page.id \o "</p>", p.rest)
    ELSE Raise(<<"Either page_id or title must be provided">>, <<>>, TRUE)

ConfluenceClient_get_recent_pages(space_key, env, i) ==
    LET o == env.rest[i]
        search_space == SpaceOr(space_key)
        cql == IF Truthy(search_space)
               THEN <<"type=page AND space=\"", search_space,
                      "\" ORDER BY lastModified DESC">>
               ELSE <<"type=page ORDER BY lastModified DESC">>
        rest == <<Op("cql", cql)>>
    IN  IF o = "ok" THEN Ok(Pages(env.n), rest)
        ELSE Raise(<<"Failed to get recent pages: ", RestFailure(o)>>,
                   rest, TRUE)

PageUrl(page_id) ==
    confluence_url \o "/pages/viewpage.action?pageId=" \o page_id

---------------------------------------------------------------------------
(* Handlers of atlassian_mcp/confluence_tools.py *)

RECURSIVE PageEntries(_, _)
PageEntries(pages, i) ==
    IF i > Len(pages) THEN <<>>
    ELSE <<ToString(i), ". ", pages[i].title, "\n",
           "   Space: ", pages[i].space, " | Version: ",
           ToString(pages[i].version), "\n",
           "   URL: ", PageUrl(pages[i].id), "\n\n">>
         \o PageEntries(pages, i + 1)

PageListing(pages, empty, noun) ==
    IF Len(pages) = 0 THEN <<empty>>
    ELSE <<"Found ", ToString(Len(pages)), noun>> \o PageEntries(pages, 1)

PageHeader(page) ==
    <<page.title, "\n", "Space: ", page.space, " | Version: ",
      ToString(page.version), "\n", "URL: ", PageUrl(page.id), "\n">>

search_confluence_pages(arguments, env) ==
    LET query == Get(arguments, "query", "")
        space_key == Get(arguments, "space_key", None)
    IN  IF ~Truthy(query)
        THEN Reply(<<"Error", ": 'query' parameter is required">>)
        ELSE LET c == ConfluenceClient_search_confluence_pages(query,
                          space_key, env, 1)
             IN  HandlerCatch(
                     IF c.st = "raise" THEN c
                     ELSE Ok(PageListing(c.val,
                                 "No pages found matching the query.",
                                 " page(s):\n\n"), c.rest),
                     " searching Confluence pages: ")

create_confluence_page(arguments, env) ==
    LET title == Get(arguments, "title", "")
        body == Get(arguments, "body", "")
        space_key == Get(arguments, "space_key", None)
        parent_id == Get(arguments, "parent_id", None)
    IN  IF ~All(<<title, body>>)
        THEN Reply(<<"Error", ": 'title' and 'body' are required">>)
        ELSE LET c == ConfluenceClient_create_confluence_page(title, body,
                          space_key, parent_id, env, 1)
             IN  HandlerCatch(
                     IF c.st = "raise" THEN c
                     ELSE IF c.val.none
                     THEN Raise(<<NoneTypeGet>>, c.rest, FALSE)
                     ELSE Ok(<<"(U+2713) Created Confluence page: ", title,
                               "\n", "Space: ", c.val.page.space, "\n",
                               "URL: ", PageUrl(c.val.page.id), "\n">>,
                             c.rest),
                     " creating Confluence page: ")

update_confluence_page(arguments, env) ==
    LET page_id == Get(arguments, "page_id", "")
        title == Get(arguments, "title", None)
        body == Get(arguments, "body", None)
    IN  IF ~Truthy(page_id)
        THEN Reply(<<"Error", ": 'page_id' is required">>)
        ELSE IF ~Truthy(title) /\ ~Truthy(body)
        THEN Reply(<<"Error",
                     ": At least one of 'title' or 'body' must be provided">>)
        ELSE LET c == ConfluenceClient_update_confluence_page(page_id, title,
                          body, env, 1)
             IN  HandlerCatch(
                     IF c.st = "raise" THEN c
                     ELSE IF c.val.none
                     THEN Raise(<<NoneTypeIn>>, c.rest, TRUE)
                     ELSE Ok(<<"(U+2713) Updated Confluence page: ">>
                             \o PageHeader(c.val.page), c.rest),
                     " updating Confluence page: ")

get_confluence_page_content(arguments, env) ==
    LET page_id == Get(arguments, "page_id", None)
        title == Get(arguments, "title", None)
        space_key == Get(arguments, "space_key", None)
    IN  IF ~Truthy(page_id) /\ ~Truthy(title)
        THEN Reply(<<"Error",
                     ": Either 'page_id' or 'title' must be provided">>)
        ELSE LET c == ConfluenceClient_get_page_content(page_id, title,
                          space_key, env, 1)
                 m == IF Truthy(page_id)
                      THEN ConfluenceClient_get_page_by_id(page_id, env, 2)
                      ELSE ConfluenceClient_get_page_by_title(title,
                               space_key, env, 2)
             IN  HandlerCatch(
                     IF c.st = "raise" THEN c
                     ELSE IF m.st = "raise"
                     THEN Raise(m.msg, c.rest \o m.rest, TRUE)
                     ELSE IF m.val.none
                     THEN Ok(<<"Content:\n", c.val, "\n">>, c.rest \o m.rest)
                     ELSE Ok(<<"Page: ">> \o PageHeader(m.val.page)
                             \o <<"\n", "Content:\n", c.val, "\n">>,
                             c.rest \o m.rest),
                     " getting page content: ")

get_recent_confluence_pages(arguments, env) ==
    LET space_key == Get(arguments, "space_key", None)
        c == ConfluenceClient_get_recent_pages(space_key, env, 1)
    IN  HandlerCatch(
            IF c.st = "raise" THEN c
            ELSE Ok(PageListing(c.val, "No recent pages found.",
                                " recent page(s):\n\n"), c.rest),
            " getting recent pages: ")

\* the body of the handler coroutine named h
HandlerBody(h, arguments, env) ==
    CASE h = "search_jira_tickets" -> search_jira_tickets(arguments, env)
      [] h = "create_jira_ticket" -> create_jira_ticket(arguments, env)
      [] h = "update_jira_ticket" -> update_jira_ticket(arguments, env)
      [] h = "add_jira_comment" -> add_jira_comment(arguments, env)
      [] h = "get_my_sprint_tasks" -> get_my_sprint_tasks(arguments, env)
      [] h = "search_confluence_pages" ->
             search_confluence_pages(arguments, env)
      [] h = "create_confluence_page" ->
             create_confluence_page(arguments, env)
      [] h = "update_confluence_page" ->
             update_confluence_page(arguments, env)
      [] h = "get_confluence_page_content" ->
             get_confluence_page_content(arguments, env)
      [] h = "get_recent_confluence_pages" ->
             get_recent_confluence_pages(arguments, env)

---------------------------------------------------------------------------
(* HandlerSpec: a handler coroutine applied to one argument mapping *)

NoEnv == [rest |-> [i \in 1..MaxRestCalls |-> "ok"], n |-> 0]

NoCall == [handler |-> "none", arguments |-> EmptyArgs, env |-> NoEnv,
           result |-> Reply(<<>>), stdout |-> <<>>]

\* print(f"Warning: Could not find page '{title}': {e}")
Warning(title) ==
    <<"Warning: Could not find page '", title, "': ", RestError, "\n">>

\* what one call of get_page_by_title writes to standard output
Printed(p, title) == IF p.val.printed THEN Warning(title) ELSE <<>>

\* what a handler invocation writes to standard output: the only print of
\* the handlers and clients is in get_page_by_title, which
\* get_confluence_page_content reaches when it is given no page_id; it
\* calls it once through get_page_content and, when that found the page,
\* once more for the metadata
HandlerStdout(h, arguments, env) ==
    LET page_id == Get(arguments, "page_id", None)
        title == Get(arguments, "title", None)
        space_key == Get(arguments, "space_key", None)
    IN  IF h = "get_confluence_page_content" /\ ~Truthy(page_id)
           /\ Truthy(title)
        THEN LET p1 == ConfluenceClient_get_page_by_title(title, space_key,
                           env, 1)
                 p2 == ConfluenceClient_get_page_by_title(title, space_key,
                           env, 2)
             IN  Printed(p1, title)
                 \o (IF p1.val.none THEN <<>> ELSE Printed(p2, title))
        ELSE <<>>

Invoke(h, arguments, env) ==
    /\ call = NoCall
    /\ call' = [handler |-> h, arguments |-> arguments, env |-> env,
                result |-> HandlerBody(h, arguments, env),
                stdout |-> HandlerStdout(h, arguments, env)]
    /\ UNCHANGED <<serverVars, providerVars, cli, wiki, module_tools>>

\* the argument mappings drawn for each handler
ArgsOf == [h \in ToolNames |-> ArgSpace(KeysOf(h))]

HandlerNext ==
    /\ call = NoCall
    /\ \E h \in ToolNames, env \in Envs :
           \E arguments \in ArgsOf[h] : Invoke(h, arguments, env)

---------------------------------------------------------------------------
(* Registration (server.py create_server) and call_tool dispatch *)

NoHandler == "none"

\* the functions decorated with @server.call_tool(), in decoration order
JiraHandlers ==
    <<"search_jira_tickets", "create_jira_ticket", "update_jira_ticket",
      "add_jira_comment", "get_my_sprint_tasks">>
ConfluenceHandlers ==
    <<"search_confluence_pages", "create_confluence_page",
      "update_confluence_page", "get_confluence_page_content",
      "get_recent_confluence_pages">>

\* @server.call_tool() applied to f: the server keeps one handler for
\* CallToolRequest, request_handlers[CallToolRequest], and the decorator
\* assigns it; s is the function held before
Decorate(s, f) == f

\* register_jira_tools(server); register_confluence_tools(server): the
\* functions in the order these two calls decorate them
Decorated == JiraHandlers \o ConfluenceHandlers

\* the function's __qualname__: it is defined inside register_jira_tools
\* or register_confluence_tools
QualName(f) ==
    (IF \E i \in DOMAIN JiraHandlers : JiraHandlers[i] = f
     THEN "register_jira_tools" ELSE "register_confluence_tools")
    \o ".<locals>." \o f

\* the parameters left unbound, as the TypeError lists them
MissingNames(params, n) ==
    IF Len(params) - n = 1 THEN <<"'", params[n + 1], "'">>
    ELSE <<"'", params[n + 1], "' and '", params[n + 2], "'">>

\* str(e) of the TypeError a call with n positional actuals raises
ArityError(f, params, n) ==
    IF n > Len(params)
    THEN <<QualName(f), "() takes ", ToString(Len(params)),
           IF Len(params) = 1 THEN " positional argument but "
                              ELSE " positional arguments but ",
           ToString(n), IF n = 1 THEN " was given" ELSE " were given">>
    ELSE <<QualName(f), "() missing ", ToString(Len(params) - n),
           IF Len(params) - n = 1 THEN " required positional argument: "
                                  ELSE " required positional arguments: ">>
         \o MissingNames(params, n)

\* async def <handler>(name: str, arguments: dict)
HandlerParams_NameAndArguments(f) == <<"name", "arguments">>

\* async def <handler>(arguments: dict)
HandlerParams(f) == <<"arguments">>

\* the server calls the function it holds with the request's tool name and
\* its argument mapping (an absent mapping as {}); the call binds them to
\* the function's parameters or raises TypeError before the body runs
InvokeHandler(f, actuals, env) ==
    IF Len(actuals) # Len(HandlerParams(f))
    THEN [raised |-> TRUE, executed |-> <<>>, rest |-> <<>>,
          blocks |-> << ArityError(f, HandlerParams(f), Len(actuals)) >>]
    ELSE LET r == HandlerBody(f, actuals[Len(actuals)], env)
         IN  [raised |-> r.raised, executed |-> <<f>>, rest |-> r.rest,
              blocks |-> r.blocks]

\* a dispatch that lets the exception of the call leave server.run
call_tool_handler_Propagate(f, req, env) ==
    LET r == InvokeHandler(f, <<req.name, req.arguments>>, env)
    IN  [invoked |-> f, executed |-> r.executed, rest |-> r.rest,
         blocks |-> r.blocks, isError |-> r.raised, propagated |-> r.raised,
         tools |-> <<>>]

\* the CallToolRequest handler the decorator installs around f: the
\* function's return becomes the content, an exception becomes one text
\* block holding str(e) with isError set
call_tool_handler(f, req, env) ==
    LET r == InvokeHandler(f, <<req.name, req.arguments>>, env)
    IN  [invoked |-> f, executed |-> r.executed, rest |-> r.rest,
         blocks |-> r.blocks, isError |-> r.raised, propagated |-> FALSE,
         tools |-> <<>>]

\* a list_tools handler whose catalog loses the Confluence tools once a
\* call has ended in an error
\* @server.list_tools(): return JIRA_TOOLS + CONFLUENCE_TOOLS
list_tools_handler ==
    [invoked |-> NoHandler, executed |-> <<>>, rest |-> <<>>,
     blocks |-> <<>>, isError |-> FALSE, propagated |-> FALSE,
     tools |-> list_tools]

HandleRequest(req, env) ==
    IF req.kind = "list_tools" THEN list_tools_handler
    ELSE call_tool_handler(slot, req, env)

IsErrorResult(r) ==
    r.isError \/ (Len(r.blocks) > 0 /\ StartsWithError(r.blocks[1]))

---------------------------------------------------------------------------
(* The dispatch loop (server.py main: server.run over stdio_server) *)

UnknownNames == {"no_such_tool", "Search_Jira_Tickets"}
ReqNames == ToolNames \cup UnknownNames

\* the names the peer also sends with every argument supplied
WithArguments ==
    {"search_jira_tickets", "create_jira_ticket",
     "get_recent_confluence_pages", "no_such_tool"}

FullArgs(n) ==
    IF n \in ToolNames THEN [k \in KeysOf(n) |-> "x"] ELSE [k \in {"jql"} |-> "x"]

\* the requests the peer may write: kind, tool name, argument mapping
Requests ==
    {[kind |-> "list_tools", name |-> "", arguments |-> EmptyArgs]}
    \cup {[kind |-> "call_tool", name |-> n, arguments |-> EmptyArgs] :
            n \in ReqNames}
    \cup {[kind |-> "call_tool", name |-> n, arguments |-> FullArgs(n)] :
            n \in WithArguments}

\* the outcomes of the REST calls drawn for a handler run by the loop
LoopEnvs == {e \in Envs : e.n = MaxItems /\ \A i \in 1..MaxRestCalls : e.rest[i] = e.rest[1]}

NoOutcome ==
    [id |-> 0, kind |-> "none", name |-> "", arguments |-> EmptyArgs,
     invoked |-> NoHandler, executed |-> <<>>, rest |-> <<>>,
     blocks |-> <<>>, isError |-> FALSE, propagated |-> FALSE,
     tools |-> <<>>]

Outcome(req, r) ==
    [id |-> req.id, kind |-> req.kind, name |-> req.name,
     arguments |-> req.arguments, invoked |-> r.invoked,
     executed |-> r.executed, rest |-> r.rest, blocks |-> r.blocks,
     isError |-> r.isError, propagated |-> r.propagated, tools |-> r.tools]

NoCatalog == [id |-> 0, tools |-> <<>>]

\* the first list_tools result of the run, once there is one
CatalogSeen(req, r) ==
    IF req.kind = "list_tools" /\ firstCatalog = NoCatalog
    THEN [id |-> req.id, tools |-> r.tools]
    ELSE firstCatalog

\* the handler coroutines contain no await: once one has started, the event
\* loop runs nothing else of the process until it returns
EventLoopFree == running = {}

\* main: an exception leaving server.run is logged and re-raised, which
\* ends the process; a result, error or not, leaves the loop running
LoopAfter(r) == IF r.propagated THEN "Terminated" ELSE "Running"

\* a loop that reads the next request whenever one has arrived
AwaitingRequest_Pipelined == TRUE

\* the loop is in its state AwaitingRequest: no request is read and not
\* yet answered (one request is processed to completion before the next is
\* read; no more than one request is in flight)
AwaitingRequest == received = <<>> /\ running = {} /\ pending = <<>>

\* the result is written once for the request and once more as a notice
ResponsesFor_Twice(req) == <<req.id, req.id>>

\* the responses the loop serializes for a request handled: one, carrying
\* the request's id
ResponsesFor(req) == <<req.id>>

\* the loop ends as soon as the inbound stream is closed
CanTerminate_OnClose == inboundClosed

\* server.run returns once the inbound stream is at end of file, every
\* request read has been handled and every response has been written
CanTerminate ==
    /\ inboundClosed
    /\ inbound = <<>>
    /\ received = <<>>
    /\ running = {}
    /\ pending = <<>>

\* import of atlassian_mcp.jira_tools and atlassian_mcp.confluence_tools
\* by server.py: each runs config = get_config() at module level, before
\* main is called; a ValueError there ends the process
ImportTools(cfg) ==
    /\ phase = "Idle"
    /\ server_config' = cfg
    /\ phase' = IF get_config(cfg).raised THEN "Aborted" ELSE "Imported"
    /\ UNCHANGED <<slot, registered, sent, inbound, inboundClosed, received,
                   running, pending, outbound, handled, errorIds,
                   closedDuring, firstCatalog, call, providerVars, cli, wiki, module_tools>>

Import == \E cfg \in ServerConfigs : ImportTools(cfg)

\* create_server, one decoration: the next function of register_jira_tools,
\* then of register_confluence_tools, is defined and decorated
RegisterTool ==
    /\ phase = "Imported"
    /\ Len(registered) < Len(Decorated)
    /\ registered' = Append(registered, Decorated[Len(registered) + 1])
    /\ slot' = Decorate(slot, Decorated[Len(registered) + 1])
    /\ UNCHANGED <<phase, sent, inbound, inboundClosed, received, running,
                   pending, outbound, handled, errorIds, closedDuring, call,
                   providerVars, firstCatalog, server_config, cli, wiki,
                   module_tools>>

\* create_server after the last decoration: list_tools is registered and
\* the server returned; main opens the transport and awaits server.run
CreateServer ==
    /\ phase = "Imported"
    /\ Len(registered) = Len(Decorated)
    /\ phase' = "Running"
    /\ UNCHANGED <<slot, registered, sent, inbound, inboundClosed, received, running, pending,
                   outbound, handled, errorIds, closedDuring, call,
                   providerVars, firstCatalog, server_config, cli, wiki, module_tools>>

PeerSend(req) ==
    /\ phase = "Running"
    /\ ~inboundClosed
    /\ sent < MaxRequests
    /\ sent' = sent + 1
    /\ inbound' = Append(inbound,
                         [id |-> sent + 1, kind |-> req.kind,
                          name |-> req.name, arguments |-> req.arguments])
    /\ UNCHANGED <<phase, slot, registered, inboundClosed, received, running,
                   pending, outbound, handled, errorIds, closedDuring, call,
                   providerVars, firstCatalog, server_config, cli, wiki, module_tools>>

PeerClose ==
    /\ phase = "Running"
    /\ ~inboundClosed
    /\ inboundClosed' = TRUE
    /\ closedDuring' = {r.id : r \in running}
    /\ UNCHANGED <<phase, slot, registered, sent, inbound, received, running,
                   pending, outbound, handled, errorIds, call, providerVars, firstCatalog, server_config, cli, wiki, module_tools>>

ReadRequest ==
    /\ phase = "Running"
    /\ EventLoopFree
    /\ AwaitingRequest
    /\ inbound # <<>>
    /\ received' = Append(received, Head(inbound))
    /\ inbound' = Tail(inbound)
    /\ UNCHANGED <<phase, slot, registered, sent, inboundClosed, running,
                   pending, outbound, handled, errorIds, closedDuring, call,
                   providerVars, firstCatalog, server_config, cli, wiki, module_tools>>

StartHandling ==
    /\ phase = "Running"
    /\ EventLoopFree
    /\ received # <<>>
    /\ running' = running \cup {Head(received)}
    /\ received' = Tail(received)
    /\ UNCHANGED <<phase, slot, registered, sent, inbound, inboundClosed,
                   pending, outbound, handled, errorIds, closedDuring, call,
                   providerVars, firstCatalog, server_config, cli, wiki, module_tools>>

FinishHandling(req, env) ==
    /\ phase = "Running"
    /\ req \in running
    /\ handled' = Outcome(req, HandleRequest(req, env))
    /\ phase' = LoopAfter(handled')
    /\ pending' = IF handled'.propagated THEN pending
                  ELSE pending \o ResponsesFor(req)
    /\ module_tools' = IF req.kind = "list_tools"
                       THEN AfterListTools(module_tools) ELSE module_tools
    /\ errorIds' = IF IsErrorResult(handled') THEN errorIds \cup {req.id}
                   ELSE errorIds
    /\ firstCatalog' = CatalogSeen(req, handled')
    /\ running' = running \ {req}
    /\ UNCHANGED <<slot, registered, sent, inbound, inboundClosed, received,
                   outbound, closedDuring, call, providerVars, server_config,
                   cli, wiki>>

WriteResponse ==
    /\ phase = "Running"
    /\ EventLoopFree
    /\ pending # <<>>
    /\ outbound' = Append(outbound, Head(pending))
    /\ pending' = Tail(pending)
    /\ UNCHANGED <<phase, slot, registered, sent, inbound, inboundClosed,
                   received, running, handled, errorIds, closedDuring, call,
                   providerVars, firstCatalog, server_config, cli, wiki, module_tools>>

Terminate ==
    /\ phase = "Running"
    /\ CanTerminate
    /\ phase' = "Terminated"
    /\ UNCHANGED <<slot, registered, sent, inbound, inboundClosed, received,
                   running, pending, outbound, handled, errorIds,
                   closedDuring, call, providerVars, firstCatalog, server_config, cli, wiki, module_tools>>

\* how an interrupt ends the process: KeyboardInterrupt raised in main's
\* frame is caught (except KeyboardInterrupt: "Server stopped by user") and
\* main returns ("Stopped"); a SIGINT that asyncio.run turns into the
\* cancellation of main passes both except clauses and leaves asyncio.run
\* as KeyboardInterrupt ("Killed")
InterruptOutcomes == {"Stopped", "Killed"}

\* the user interrupts the process inside main's try block: in
\* create_server before, between or after its decorations, which leaves
\* the functions decorated so far registered, or while main awaits server.run,
\* at any moment, with the inbound stream open or closed and with requests
\* unread, in a handler or unanswered; nothing more is read or written
KeyboardInterrupt(outcome) ==
    /\ phase \in {"Imported", "Running"}
    /\ phase' = outcome
    /\ UNCHANGED <<slot, registered, sent, inbound, inboundClosed, received,
                   running, pending, outbound, handled, errorIds,
                   closedDuring, call, providerVars, firstCatalog,
                   server_config, cli, wiki, module_tools>>

Handle == \E req \in running, env \in LoopEnvs : FinishHandling(req, env)

Send ==
    /\ phase = "Running"
    /\ ~inboundClosed
    /\ sent < MaxRequests
    /\ \E req \in Requests : PeerSend(req)

\* the steps of a run the user does not interrupt
LoopNext ==
    \/ Import
    \/ RegisterTool
    \/ CreateServer
    \/ Send
    \/ PeerClose
    \/ ReadRequest
    \/ StartHandling
    \/ Handle
    \/ WriteResponse
    \/ Terminate

ServerNext ==
    \/ LoopNext
    \/ \E outcome \in InterruptOutcomes : KeyboardInterrupt(outcome)

---------------------------------------------------------------------------
(* Providers (src/providers/, src/agent_sdk.py) *)

Configs ==
    [model_provider : {"claude", "Claude", "openai", "OPENAI", "bogus"},
     model_name : {None, "custom-model"},
     anthropic_api_key : {"", "sk-ant"},
     openai_api_key : {"", "sk-oai"}]

\* a comparison of the provider name as it is written
Lower_AsWritten(s) == s

\* str.lower() on the provider names drawn above
Lower(s) ==
    IF s = "Claude" THEN "claude"
    ELSE IF s = "OPENAI" THEN "openai"
    ELSE s

mcp_server_path == "mcp-server/server.py"
skills_dir == ".claude/skills"
system_prompt == "You are an AI assistant helping users interact with their Jira and Confluence instances."

NoProvider ==
    [kind |-> "none", model |-> "", api_key |-> "", mcp_server_path |-> "",
     skills_dir |-> "", system_prompt |-> ""]

\* ClaudeAgentProvider.__init__
ClaudeAgentProvider(config) ==
    [kind |-> "claude",
     model |-> IF Truthy(config.model_name) THEN config.model_name
               ELSE "claude-3-5-sonnet-20241022",
     api_key |-> config.anthropic_api_key,
     mcp_server_path |-> mcp_server_path, skills_dir |-> skills_dir,
     system_prompt |-> system_prompt]

\* the outcome of a construction: the instance, or the exception raised
Constructed(p) == [provider |-> p, error |-> "none"]
NotConstructed(exc) == [provider |-> NoProvider, error |-> exc]

\* OpenAIAgentProvider.__init__; installed: the import of the agents package
\* at the top of the module succeeded (Agent, Runner and MCPServerStdio are
\* not None); otherwise the constructor raises ImportError
OpenAIAgentProvider(config, installed) ==
    IF ~installed THEN NotConstructed("ImportError")
    ELSE Constructed(
        [kind |-> "openai",
         model |-> IF Truthy(config.model_name) THEN config.model_name
                   ELSE "gpt-4",
         api_key |-> config.openai_api_key,
         mcp_server_path |-> mcp_server_path, skills_dir |-> skills_dir,
         system_prompt |-> system_prompt])

\* AtlassianAgentSDK.__init__
AtlassianAgentSDK(config) ==
    [kind |-> "sdk", model |-> "claude-3-5-sonnet-20241022",
     api_key |-> config.anthropic_api_key,
     mcp_server_path |-> mcp_server_path, skills_dir |-> skills_dir,
     system_prompt |-> system_prompt]

\* create_agent_provider: the provider returned, or the exception raised:
\* the ImportError of the OpenAI constructor, or ValueError for a name that
\* is neither "claude" nor "openai"
create_agent_provider(config, installed) ==
    LET provider == Lower(config.model_provider)
    IN  IF provider = "claude" THEN Constructed(ClaudeAgentProvider(config))
        ELSE IF provider = "openai"
        THEN OpenAIAgentProvider(config, installed)
        ELSE NotConstructed("ValueError")

NoFactoryCall == [called |-> FALSE, model_provider |-> "", kind |-> "none",
                  raised |-> FALSE, error |-> "none", installed |-> TRUE]

\* the record of one factory call that ended as r
FactoryCall(config, r, installed) ==
    [called |-> TRUE, model_provider |-> config.model_provider,
     kind |-> r.provider.kind, raised |-> (r.error # "none"),
     error |-> r.error, installed |-> installed]

\* what the wrapped runtime does in one chat call.
\* attach: the blocking adapter and the tool-server subprocess:
\*   "adapter_fail"  asyncio.run raises (a loop is already running)
\*   "attach_fail"   the subprocess cannot be launched or attached to
\* run: the turn itself: a result of one of three shapes, a model API
\*   failure, or an interrupt (KeyboardInterrupt, not an Exception)
Attach == {"ok", "adapter_fail", "attach_fail"}
Run == {"text", "content", "other", "api_error", "interrupt"}
Scenarios == [attach : Attach, run : Run]

NoTurn == [attach |-> "ok", run |-> "text"]

ResponseText == <<"Here are your sprint tasks">>

ExcMessage(cause) == <<cause>>

\* an outcome handed to chat's try/except: kind "return" with text, kind
\* "Exception" or kind "BaseException" with the cause
Returned(text) == [kind |-> "return", text |-> text, cause |-> "none"]
Failed(cause) == [kind |-> "Exception", text |-> <<>>, cause |-> cause]
Interrupted == [kind |-> "BaseException", text |-> <<>>, cause |-> "interrupt"]

\* chat without its except clause
ChatCatch_Propagate(out) ==
    IF out.kind = "return"
    THEN [raised |-> FALSE, text |-> out.text, failed |-> FALSE,
          cause |-> "none"]
    ELSE [raised |-> TRUE, text |-> <<>>, failed |-> out.kind = "Exception",
          cause |-> out.cause]

\* try: return <outcome>
\* except Exception as e: return f"Error: {str(e)}"
ChatCatch(out) ==
    IF out.kind = "return"
    THEN [raised |-> FALSE, text |-> out.text, failed |-> FALSE,
          cause |-> "none"]
    ELSE IF out.kind = "Exception"
    THEN [raised |-> FALSE, text |-> <<"Error", ": ">> \o ExcMessage(out.cause),
          failed |-> TRUE, cause |-> out.cause]
    ELSE [raised |-> TRUE, text |-> <<>>, failed |-> FALSE,
          cause |-> out.cause]

\* self.agent.chat(message) of the Claude runtime
AgentChat(scen) ==
    IF scen.attach # "ok" THEN Failed(scen.attach)
    ELSE IF scen.run = "api_error" THEN Failed("api_error")
    ELSE IF scen.run = "interrupt" THEN Interrupted
    ELSE Returned(ResponseText)

\* Runner.run(agent, message) and the extraction of the text in _async_chat
RunnerRun(scen) ==
    IF scen.run = "api_error" THEN Failed("api_error")
    ELSE IF scen.run = "interrupt" THEN Interrupted
    ELSE IF scen.run = "text" THEN Returned(ResponseText)
    ELSE IF scen.run = "content"
    THEN Returned(<<"str(">> \o ResponseText \o <<")">>)
    ELSE Returned(<<"RunResult(">> \o ResponseText \o <<")">>)

NoChat == [raised |-> FALSE, text |-> <<>>, failed |-> FALSE,
           cause |-> "none", acq |-> 0, rel |-> 0]

ChatDone(c, acq, rel) ==
    [raised |-> c.raised, text |-> c.text, failed |-> c.failed,
     cause |-> c.cause, acq |-> acq, rel |-> rel]

\* cleanup called after the turn instead of a context manager: skipped
\* when the turn raises
ReleasedOnExit_SuccessOnly(out) == IF out.kind = "return" THEN 1 ELSE 0

\* async with MCPServerStdio(...) releases the session it acquired when the
\* block is left, by return or by exception
ReleasedOnExit(out) == 1

\* the count of failed chat calls after a chat call that ended as c
FailedAfter(c) == IF c.failed THEN failedChats + 1 ELSE failedChats

\* one MCPServerStdio made in the constructor and reused by every call: once
\* a call has failed, the session stays unusable
SessionAttach_Sticky(t, failed) ==
    IF failed > 0 /\ t.attach = "ok" THEN "attach_fail" ELSE t.attach

\* MCPServerStdio(params=self.mcp_params) is made inside _async_chat, and
\* asyncio.run makes a new event loop: what a call's adapter and launch do
\* depends on that call alone, not on the calls before it
SessionAttach(t, failed) == t.attach

\* a chat that falls back to the other implementation once a call fails
AfterChat_Fallback(p, c) ==
    IF c.failed /\ p.kind = "claude" THEN [p EXCEPT !.kind = "openai"]
    ELSE IF c.failed /\ p.kind = "openai" THEN [p EXCEPT !.kind = "claude"]
    ELSE p

\* the instance after a chat call that ended as c: chat and _async_chat
\* read self.agent, self.mcp_params, self.system_prompt and self.model_name
\* and assign no attribute of self
AfterChat(p, c) == p

\* get_provider_name: a literal per class
get_provider_name(p) == IF p.kind = "openai" THEN "openai" ELSE "claude"

\* a call of the factory: the provider it returns, or the error it raises
CreateProvider(config, installed) ==
    /\ prov = NoProvider
    /\ prov' = create_agent_provider(config, installed).provider
    /\ factory' = FactoryCall(config, create_agent_provider(config, installed),
                              installed)
    /\ UNCHANGED <<pc, turn, acquired, released, chats, failedChats,
                   lastChat, call, serverVars, cli, wiki, module_tools>>

CreateSDK(config) ==
    /\ prov = NoProvider
    /\ prov' = AtlassianAgentSDK(config)
    /\ UNCHANGED <<pc, turn, acquired, released, chats, failedChats,
                   lastChat, call, serverVars, factory, cli, wiki, module_tools>>

\* ClaudeAgentProvider.chat and AtlassianAgentSDK.chat
SyncChat(scen) ==
    /\ prov.kind \in {"claude", "sdk"}
    /\ pc = "idle"
    /\ chats < MaxChats
    /\ chats' = chats + 1
    /\ turn' = scen
    /\ lastChat' = ChatDone(ChatCatch(AgentChat(scen)), 0, 0)
    /\ failedChats' = FailedAfter(ChatCatch(AgentChat(scen)))
    /\ prov' = AfterChat(prov, ChatCatch(AgentChat(scen)))
    /\ UNCHANGED <<pc, acquired, released, call, serverVars, factory, cli, wiki, module_tools>>

\* OpenAIAgentProvider.chat is called
ChatCall(scen) ==
    /\ prov.kind = "openai"
    /\ pc = "idle"
    /\ chats < MaxChats
    /\ pc' = "asyncio_run"
    /\ turn' = scen
    /\ lastChat' = NoChat
    /\ UNCHANGED <<prov, acquired, released, chats, failedChats, call,
                   serverVars, factory, cli, wiki, module_tools>>

\* asyncio.run(self._async_chat(message)) starts the coroutine, or raises
AsyncioRun ==
    /\ pc = "asyncio_run"
    /\ IF SessionAttach(turn, failedChats) = "adapter_fail"
       THEN /\ pc' = "idle"
            /\ chats' = chats + 1
            /\ lastChat' = ChatDone(ChatCatch(Failed("adapter_fail")), 0, 0)
            /\ failedChats' = FailedAfter(ChatCatch(Failed("adapter_fail")))
            /\ prov' = AfterChat(prov, ChatCatch(Failed("adapter_fail")))
       ELSE /\ pc' = "enter"
            /\ UNCHANGED <<prov, chats, failedChats, lastChat>>
    /\ UNCHANGED <<turn, acquired, released, call, serverVars, factory, cli, wiki, module_tools>>

\* async with MCPServerStdio(params=self.mcp_params) as mcp_server:
EnterSession ==
    /\ pc = "enter"
    /\ IF SessionAttach(turn, failedChats) = "attach_fail"
       THEN /\ pc' = "idle"
            /\ chats' = chats + 1
            /\ lastChat' = ChatDone(ChatCatch(Failed("attach_fail")), 0, 0)
            /\ failedChats' = FailedAfter(ChatCatch(Failed("attach_fail")))
            /\ prov' = AfterChat(prov, ChatCatch(Failed("attach_fail")))
            /\ UNCHANGED <<acquired, released>>
       ELSE /\ pc' = "in_session"
            /\ acquired' = acquired + 1
            /\ lastChat' = ChatDone(NoChat, 1, 0)
            /\ UNCHANGED <<prov, released, chats, failedChats>>
    /\ UNCHANGED <<turn, call, serverVars, factory, cli, wiki, module_tools>>

\* result = await Runner.run(agent, message): the turn ends, by a return
\* or by an exception, with the session still held
RunTurn ==
    /\ pc = "in_session"
    /\ pc' = "exit_session"
    /\ UNCHANGED <<prov, turn, acquired, released, chats, failedChats,
                   lastChat, call, serverVars, factory, cli, wiki, module_tools>>

\* the exit of the async with block: the awaited __aexit__ releases the
\* session; the coroutine has not returned yet
ExitSession ==
    /\ pc = "exit_session"
    /\ pc' = "return"
    /\ released' = released + ReleasedOnExit(RunnerRun(turn))
    /\ lastChat' = [lastChat EXCEPT !.rel = ReleasedOnExit(RunnerRun(turn))]
    /\ UNCHANGED <<prov, turn, acquired, chats, failedChats, call,
                   serverVars, factory, cli, wiki, module_tools>>

\* the coroutine returns or raises, asyncio.run closes its loop and hands
\* the outcome to chat's try/except, and chat returns
ChatReturn ==
    /\ pc = "return"
    /\ pc' = "idle"
    /\ chats' = chats + 1
    /\ lastChat' = ChatDone(ChatCatch(RunnerRun(turn)), lastChat.acq,
                            lastChat.rel)
    /\ failedChats' = FailedAfter(ChatCatch(RunnerRun(turn)))
    /\ prov' = AfterChat(prov, ChatCatch(RunnerRun(turn)))
    /\ UNCHANGED <<turn, acquired, released, call, serverVars, factory,
                   cli, wiki, module_tools>>

ProviderNext ==
    \/ \E config \in Configs, installed \in BOOLEAN :
           CreateProvider(config, installed)
    \/ \E config \in Configs : CreateSDK(config)
    \/ \E scen \in Scenarios : SyncChat(scen)
    \/ \E scen \in Scenarios : ChatCall(scen)
    \/ AsyncioRun
    \/ EnterSession
    \/ RunTurn
    \/ ExitSession
    \/ ChatReturn

---------------------------------------------------------------------------
(* The command line entry point (src/main.py) and the interactive session  *)
(* (src/agent_sdk.py start_interactive_session)                            *)

\* the command lines drawn: the subcommand chosen, the --sdk flag, the
\* --message of chat, and the --page-id and --title of confluence read
Commands == {None, "chat", "jira", "confluence"}
Subcommands == {None, "search", "read", "recent"}

ArgsSpace ==
    {a \in [command : Commands, subcommand : Subcommands, sdk : BOOLEAN,
            message : {None, "hello"}, page_id : {None, "1"},
            title : {None, "T"}] :
        /\ a.command # "confluence" => a.subcommand = None
        /\ a.command # "chat" => a.message = None
        /\ a.subcommand # "read" => (a.page_id = None /\ a.title = None)}

\* what a call made by main does: it returns, raises an Exception, or is
\* interrupted by the user
CallOutcomes == {"return", "Exception", "KeyboardInterrupt"}

\* what the runtime does in a chat call made from the command line: it
\* answers, fails, or is interrupted by the user
ChatScenarios ==
    {t \in Scenarios : t.attach = "ok" /\ t.run \in {"text", "api_error", "interrupt"}}

\* the surroundings of one run of main: whether get_config raises
\* ValueError, whether agent_sdk could be imported, what the constructor of
\* the agent does, what the legacy agent's workflow does, and what the
\* runtime does in the chat of a --message run
MainEnvs ==
    [config_error : BOOLEAN, SDK_AVAILABLE : BOOLEAN, ctor : CallOutcomes,
     agent : CallOutcomes, scen : ChatScenarios]

\* how a run of main ends: it returns a code, an exception leaves it, or it
\* has entered the interactive session
Return(code, interrupted) ==
    [pc |-> "returned", code |-> code, exc |-> "none",
     interrupted |-> interrupted]
Propagates(exc) ==
    [pc |-> "raised", code |-> 0, exc |-> exc,
     interrupted |-> (exc = "KeyboardInterrupt")]
InSession ==
    [pc |-> "session", code |-> 0, exc |-> "none", interrupted |-> FALSE]

\* the try block of the legacy path around a call of the agent:
\* return 0 after it; except KeyboardInterrupt: return 130;
\* except Exception: return 1
LegacyCall(o) ==
    IF o = "KeyboardInterrupt" THEN Return(130, TRUE)
    ELSE IF o = "Exception" THEN Return(1, FALSE)
    ELSE Return(0, FALSE)

\* the try block of the chat / --sdk path: only except Exception
SdkPath(args, e) ==
    IF e.ctor = "Exception" THEN Return(1, FALSE)
    ELSE IF e.ctor = "KeyboardInterrupt" THEN Propagates("KeyboardInterrupt")
    ELSE IF Truthy(args.message)
    THEN IF ChatCatch(AgentChat(e.scen)).raised
         THEN Propagates("KeyboardInterrupt")
         ELSE Return(0, FALSE)
    ELSE InSession

\* the legacy path: AtlassianAgent(config) is constructed outside the try
LegacyPath(args, e) ==
    IF e.ctor # "return" THEN Propagates(e.ctor)
    ELSE IF ~Truthy(args.command) THEN Return(1, FALSE)
    ELSE IF args.command = "jira" THEN LegacyCall(e.agent)
    ELSE IF ~Truthy(args.subcommand) THEN Return(1, FALSE)
    ELSE IF args.subcommand = "read" /\ ~Truthy(args.page_id)
            /\ ~Truthy(args.title)
    THEN Return(1, FALSE)
    ELSE LegacyCall(e.agent)

\* main(), up to its return or to the start of the interactive session
main(args, e) ==
    IF e.config_error THEN Return(1, FALSE)
    ELSE IF args.command = "chat" \/ args.sdk
    THEN IF ~e.SDK_AVAILABLE THEN Return(1, FALSE) ELSE SdkPath(args, e)
    ELSE LegacyPath(args, e)

\* what input("\n> ") gives: a line, end of input (EOFError), or the
\* user's interrupt (KeyboardInterrupt)
EOF == "<EOFError>"
Interrupt == "<KeyboardInterrupt>"
Lines == {"quit", " EXIT ", "Q", "help", " Help", "", "  ", "show my tasks",
          "quit now"}
InputEvents == Lines \cup {EOF, Interrupt}

\* the line as typed
strip_AsTyped(s) == s

\* str.strip() on the lines drawn above
strip(s) ==
    IF s = " EXIT " THEN "EXIT"
    ELSE IF s = " Help" THEN "Help"
    ELSE IF s = "  " THEN ""
    ELSE s

\* str.lower() on the stripped lines
lower(s) ==
    IF s = "EXIT" THEN "exit"
    ELSE IF s = "Q" THEN "q"
    ELSE IF s = "Help" THEN "help"
    ELSE s

\* one iteration of the while True loop on the event ev, the runtime doing
\* scen if chat is called: whether the loop is left (stop), how many times
\* chat was called, whether an error was reported, whether the user's
\* interrupt occurred
Iteration(stop, chat, reported, interrupted) ==
    [stop |-> stop, chat |-> chat, reported |-> reported,
     interrupted |-> interrupted]

LoopBody(ev, scen) ==
    IF ev = Interrupt THEN Iteration(TRUE, 0, FALSE, TRUE)
    ELSE IF ev = EOF THEN Iteration(FALSE, 0, TRUE, FALSE)
    ELSE LET user_input == strip(ev)
         IN  IF lower(user_input) \in {"quit", "exit", "q"}
             THEN Iteration(TRUE, 0, FALSE, FALSE)
             ELSE IF lower(user_input) = "help"
             THEN Iteration(FALSE, 0, FALSE, FALSE)
             ELSE IF ~Truthy(user_input)
             THEN Iteration(FALSE, 0, FALSE, FALSE)
             ELSE IF ChatCatch(AgentChat(scen)).raised
             THEN Iteration(TRUE, 1, FALSE, TRUE)
             ELSE Iteration(FALSE, 1, FALSE, FALSE)

NoIteration == Iteration(FALSE, 0, FALSE, FALSE)

NoRun ==
    [pc |-> "start", code |-> 0, exc |-> "none", interrupted |-> FALSE,
     sdk_mode |-> FALSE, config_error |-> FALSE, inputs |-> <<>>,
     scen |-> NoTurn, chatCalls |-> 0, last |-> NoIteration]

\* exit(main()): the run of main on a command line
RunMain(args, e) ==
    /\ cli.pc = "start"
    /\ cli' = [cli EXCEPT !.pc = main(args, e).pc,
                          !.code = main(args, e).code,
                          !.exc = main(args, e).exc,
                          !.interrupted = main(args, e).interrupted,
                          !.sdk_mode = (args.command = "chat" \/ args.sdk),
                          !.config_error = e.config_error]
    /\ UNCHANGED <<serverVars, call, providerVars, wiki, module_tools>>

\* one iteration of the session's loop; when the loop is left,
\* start_interactive_session returns and main returns 0
SessionStep(ev, scen) ==
    /\ cli.pc = "session"
    /\ Len(cli.inputs) < MaxInputs
    /\ LET it == LoopBody(ev, scen)
       IN  cli' = [cli EXCEPT !.pc = IF it.stop THEN "returned" ELSE "session",
                              !.code = 0,
                              !.interrupted = it.interrupted,
                              !.inputs = Append(cli.inputs, ev),
                              !.scen = IF it.chat = 1 THEN scen ELSE NoTurn,
                              !.chatCalls = cli.chatCalls + it.chat,
                              !.last = it]
    /\ UNCHANGED <<serverVars, call, providerVars, wiki, module_tools>>

CliNext ==
    \/ \E args \in ArgsSpace, e \in MainEnvs : RunMain(args, e)
    \/ \E ev \in InputEvents, scen \in ChatScenarios : SessionStep(ev, scen)

---------------------------------------------------------------------------
(* Successive updates of one wiki page (WikiSpec) *)

\* the page as the wiki stores it, the page before the last call, and the
\* numbers of update calls made and of those that returned a success
NoWiki == [page |-> Page(1), prev |-> Page(1), calls |-> 0, updates |-> 0]

\* the positions of the update_page operations among those performed
Writes(rest) == {j \in 1..Len(rest) : rest[j].op = "update_page"}

\* self.client.update_page(**update_data) on the wiki's side: a write the
\* wiki carries out and that names the next version replaces the version
\* and the title; any other leaves the page as it is
WikiAfter(page, rest, env) ==
    IF \E j \in Writes(rest) :
           env.rest[j] = "ok" /\ rest[j].arg[2] = ToString(page.version + 1)
    THEN LET j == CHOOSE k \in Writes(rest) : TRUE
         IN  [page EXCEPT !.version = page.version + 1,
                          !.title = rest[j].arg[3]]
    ELSE page

\* one call of the update_confluence_page handler against the stored page
WikiUpdate(arguments, env) ==
    /\ wiki.calls < MaxUpdates
    /\ LET r == update_confluence_page(arguments, env)
       IN  /\ call' = [handler |-> "update_confluence_page",
                       arguments |-> arguments, env |-> env, result |-> r,
                       stdout |-> <<>>]
           /\ wiki' = [page |-> WikiAfter(wiki.page, r.rest, env),
                       prev |-> wiki.page,
                       calls |-> wiki.calls + 1,
                       updates |-> wiki.updates +
                           (IF StartsWithError(r.blocks[1]) THEN 0 ELSE 1)]
    /\ UNCHANGED <<serverVars, providerVars, cli, module_tools>>

\* the outcomes of the two REST calls an update makes: the read, the write
WikiEnvs ==
    {e \in Envs : e.n = 0 /\ \A i \in 3..MaxRestCalls : e.rest[i] = "ok"}

WikiNext ==
    \E arguments \in ArgsOf["update_confluence_page"], env \in WikiEnvs :
        WikiUpdate(arguments, env)

---------------------------------------------------------------------------
(* Specifications *)

Init ==
    /\ phase = "Idle"
    /\ server_config = NoConfig
    /\ slot = NoHandler
    /\ registered = <<>>
    /\ sent = 0
    /\ inbound = <<>>
    /\ inboundClosed = FALSE
    /\ received = <<>>
    /\ running = {}
    /\ pending = <<>>
    /\ outbound = <<>>
    /\ handled = NoOutcome
    /\ errorIds = {}
    /\ closedDuring = {}
    /\ firstCatalog = NoCatalog
    /\ call = NoCall
    /\ prov = NoProvider
    /\ pc = "idle"
    /\ turn = NoTurn
    /\ acquired = 0
    /\ released = 0
    /\ chats = 0
    /\ failedChats = 0
    /\ lastChat = NoChat
    /\ factory = NoFactoryCall
    /\ cli = NoRun
    /\ wiki = NoWiki
    /\ module_tools = ImportedTools

Next == ServerNext

Spec == Init /\ [][Next]_vars

\* the runs the user does not interrupt: the event loop runs every task
\* that is ready; a handler returns
FairSpec ==
    /\ Init /\ [][LoopNext]_vars
    /\ WF_vars(RegisterTool)
    /\ WF_vars(CreateServer)
    /\ WF_vars(ReadRequest)
    /\ WF_vars(StartHandling)
    /\ WF_vars(Handle)
    /\ WF_vars(WriteResponse)
    /\ WF_vars(Terminate)

HandlerSpec == Init /\ [][HandlerNext]_vars

ProviderSpec == Init /\ [][ProviderNext]_vars

CliSpec == Init /\ [][CliNext]_vars

WikiSpec == Init /\ [][WikiNext]_vars

---------------------------------------------------------------------------
(* Properties of the dispatch (Spec, FairSpec) *)

Answered(i) == \E j \in 1..Len(outbound) : outbound[j] = i

\* C1: a call_tool request naming a registered tool n executes exactly one
\* handler, the one declared for n
C1_HandlerDeclaredForName ==
    (handled.kind = "call_tool" /\ handled.name \in ToolNames)
        => handled.executed = <<handled.name>>

\* C2: a call_tool request whose name is not a registered tool name executes
\* no handler body, performs no remote call and returns exactly one text
\* block that is an error, whatever the argument mapping
C2_UnknownToolRunsNoHandler ==
    (handled.kind = "call_tool" /\ handled.name \notin ToolNames)
        => /\ handled.executed = <<>>
           /\ handled.rest = <<>>
           /\ Len(handled.blocks) = 1
           /\ IsErrorResult(handled)

C2_Witness ==
    /\ handled.kind = "call_tool"
    /\ handled.name = "no_such_tool"
    /\ handled.arguments = EmptyArgs
    /\ handled.isError
    /\ Answered(handled.id)

AllAnswered == \A i \in 1..sent : Answered(i)

---------------------------------------------------------------------------
(* Properties of the handlers (HandlerSpec) *)

HasRequired == {n \in ToolNames : RequiredOf(n) # {}}

MissingRequired(h, arguments) ==
    \E k \in RequiredOf(h) : ~Truthy(Get(arguments, k, ""))

OneErrorBlock(r) ==
    /\ ~r.raised
    /\ Len(r.blocks) = 1
    /\ StartsWithError(r.blocks[1])

\* C3: whenever a client method raises during a handler, the handler
\* returns exactly one text block beginning with "Error" and raises nothing
C3_ClientFailureBecomesErrorBlock ==
    (call.handler # "none" /\ call.result.clientRaised)
        => OneErrorBlock(call.result)

C3_Witness ==
    /\ call.handler = "update_confluence_page"
    /\ call.result.clientRaised
    /\ Len(call.result.rest) = 2
    /\ OneErrorBlock(call.result)

\* C4: a handler of a tool with required parameters, called with one of
\* them absent or empty, returns an error block and makes no remote call
C4_MissingRequiredIsRejected ==
    (call.handler \in HasRequired /\ MissingRequired(call.handler, call.arguments))
        => /\ OneErrorBlock(call.result)
           /\ call.result.rest = <<>>

C4_Witness ==
    /\ call.handler = "search_jira_tickets"
    /\ call.arguments = EmptyArgs
    /\ OneErrorBlock(call.result)
    /\ call.result.rest = <<>>

---------------------------------------------------------------------------
(* Properties of the providers (ProviderSpec) *)

RuntimeFailures == {"api_error", "adapter_fail", "attach_fail"}

\* C9: a chat call during which the wrapped runtime fails returns a string
\* beginning with "Error" and raises nothing, for each implementation
C9_ChatNeverRaises ==
    (pc = "idle" /\ lastChat.cause \in RuntimeFailures)
        => /\ ~lastChat.raised
           /\ StartsWithError(lastChat.text)

C9_Witness ==
    /\ prov.kind = "openai"
    /\ pc = "idle"
    /\ lastChat.cause = "adapter_fail"
    /\ StartsWithError(lastChat.text)

\* C10 as claimed: every chat call of the OpenAI provider acquires exactly
\* one session and releases it
C10_ExactlyOneSessionPerChat ==
    (prov.kind = "openai" /\ pc = "idle")
        => /\ acquired = chats
           /\ released = chats

\* C10 as amended: a chat call acquires at most one session, exactly one
\* when the adapter and the launch succeed, and releases what it acquired
\* before it returns: the step in which chat returns starts with every
\* session released; with no chat call executing none is held
C10_ScopedSession ==
    /\ []((prov.kind = "openai" /\ pc = "idle")
            => /\ acquired = released
               /\ lastChat.acq <= 1
               /\ lastChat.rel = lastChat.acq
               /\ (chats > 0 /\ lastChat.cause
                                    \notin {"adapter_fail", "attach_fail"})
                      => lastChat.acq = 1)
    /\ [][(prov.kind = "openai" /\ chats' = chats + 1)
            => (acquired = released /\ released' = released)]_vars
    /\ [](acquired - released \in {0, 1})

C10_Witness ==
    /\ prov.kind = "openai"
    /\ pc = "idle"
    /\ lastChat.cause = "api_error"
    /\ lastChat.acq = 1
    /\ lastChat.rel = 1
    /\ acquired = released

\* a chat call whose adapter, launch and turn all succeed
Succeeds(t) == t.attach = "ok" /\ t.run \in {"text", "content", "other"}

\* the text the wrapped runtime hands back for a successful call
RuntimeText(p, t) ==
    IF p.kind = "openai" THEN RunnerRun(t).text ELSE ResponseText

\* C11: after chat calls that returned an error string because the runtime
\* failed, a chat call on the same provider whose runtime succeeds returns
\* the runtime's response text, for every provider and any number of
\* earlier failures
C11_UsableAfterFailure ==
    (pc = "idle" /\ chats > 0 /\ failedChats > 0 /\ Succeeds(turn))
        => /\ ~lastChat.raised
           /\ ~StartsWithError(lastChat.text)
           /\ lastChat.text = RuntimeText(prov, turn)

C11_Witness ==
    /\ prov.kind = "openai"
    /\ pc = "idle"
    /\ failedChats = 2
    /\ chats = 3
    /\ Succeeds(turn)
    /\ lastChat.text = ResponseText

\* C12: a provider of kind "claude" or "openai" is never constructed from a
\* configuration whose credential for that kind is empty: construction
\* raises instead
C12_NoCredentialRaisesAtConstruction ==
    prov.kind \in {"claude", "openai"} => prov.api_key # ""

ClaudeSpellings == {"claude", "Claude"}
OpenAISpellings == {"openai", "OPENAI"}

\* C13 as claimed: the factory returns the Claude provider exactly for the
\* spellings of "claude", the OpenAI provider exactly for the spellings of
\* "openai", and for every other value raises, constructs no provider and
\* acquires no session
C13_FactorySelectsByLowerCasedName ==
    factory.called =>
        /\ (factory.kind = "claude") <=> (factory.model_provider \in ClaudeSpellings)
        /\ (factory.kind = "openai") <=> (factory.model_provider \in OpenAISpellings)
        /\ factory.raised <=>
               (factory.model_provider \notin ClaudeSpellings \cup OpenAISpellings)
        /\ factory.raised =>
               (prov.kind \notin {"claude", "openai"} /\ acquired = 0)

\* C13 as amended: the factory selects by the lower-cased name: it returns
\* the Claude provider exactly for the spellings of "claude"; for the
\* spellings of "openai" it returns the OpenAI provider when the agents
\* package is installed and raises ImportError when it is not; for every
\* other value it raises ValueError; whenever it raises, no provider is
\* constructed and no session is acquired
C13_FactorySelectsWhenInstalled ==
    factory.called =>
        /\ (factory.kind = "claude") <=> (factory.model_provider \in ClaudeSpellings)
        /\ (factory.kind = "openai") <=>
               (factory.model_provider \in OpenAISpellings /\ factory.installed)
        /\ (factory.error = "ImportError") <=>
               (factory.model_provider \in OpenAISpellings /\ ~factory.installed)
        /\ (factory.error = "ValueError") <=>
               (factory.model_provider \notin ClaudeSpellings \cup OpenAISpellings)
        /\ factory.raised <=> factory.kind = "none"
        /\ factory.raised =>
               (prov.kind \notin {"claude", "openai"} /\ acquired = 0)

C13_Witness ==
    /\ factory.called
    /\ factory.model_provider = "OPENAI"
    /\ prov.kind = "openai"
    /\ chats > 0

---------------------------------------------------------------------------
(* Properties of the catalog (Spec) *)

\* the positions of the descriptors named n in a list of descriptors
Named(tools, n) == {i \in 1..Len(tools) : tools[i].name = n}

\* C14: the result of list_tools holds exactly one descriptor for every
\* handler function registered, and nothing else: ten descriptors for ten
\* handlers
C14_OneDescriptorPerHandler ==
    handled.kind = "list_tools" =>
        /\ Len(handled.tools) = Cardinality(Range(registered))
        /\ Len(handled.tools) = 10
        /\ \A f \in Range(registered) :
               Cardinality(Named(handled.tools, f)) = 1
        /\ \A i \in 1..Len(handled.tools) :
               handled.tools[i].name \in Range(registered)

C14_Witness ==
    /\ handled.kind = "list_tools"
    /\ Cardinality(Named(handled.tools, "get_confluence_page_content")) = 1
    /\ Answered(handled.id)

\* C15: every list_tools result of a run equals the first one, and lists
\* the Jira tools in declaration order followed by the Confluence tools in
\* declaration order, whatever requests were handled in between; the
\* module-level lists the result is built from stay as imported
C15_CatalogNeverChanges ==
    /\ module_tools = ImportedTools
    /\ handled.kind = "list_tools" =>
           /\ handled.tools = firstCatalog.tools
           /\ handled.tools = JIRA_TOOLS \o CONFLUENCE_TOOLS

C15_Witness ==
    /\ firstCatalog.id = 1
    /\ 2 \in errorIds
    /\ handled.kind = "list_tools"
    /\ handled.id = 3
    /\ Answered(3)

---------------------------------------------------------------------------
(* Further properties of the handlers (HandlerSpec) *)

\* C16: no handler invocation, with the client methods it calls, writes
\* anything to standard output
C16_HandlersWriteNothingToStdout ==
    call.stdout = <<>>

\* the tools whose schema requires nothing
NoRequired == ToolNames \ HasRequired

\* the handler went as far as its first remote call
ReachedRemote(r) == r.rest # <<>>

\* C19: each handler of a tool without required parameters, called with the
\* empty mapping, goes on to its remote lookup and returns no
\* missing-parameter error
C19_NoRequiredAcceptsEmptyMapping ==
    (call.handler \in NoRequired /\ call.arguments = EmptyArgs)
        => ReachedRemote(call.result)

\* a mapping holding exactly the required parameters of h, each non-empty
OnlyRequired(h, arguments) ==
    /\ DOMAIN arguments = RequiredOf(h)
    /\ \A k \in RequiredOf(h) : Truthy(arguments[k])

\* C20: each handler called with a non-empty value for every required
\* parameter of its schema and no optional one is not rejected for a
\* missing parameter: it goes on to its remote call
C20_RequiredParametersSuffice ==
    (call.handler \in ToolNames /\ OnlyRequired(call.handler, call.arguments))
        => ReachedRemote(call.result)

---------------------------------------------------------------------------
(* Properties of call_tool results (Spec) *)

\* C18: the result of every call_tool is one text block, and it is an error
\* exactly when the text of that block begins with "Error"
C18_ErrorPrefixDecidesOutcome ==
    handled.kind = "call_tool" =>
        /\ Len(handled.blocks) = 1
        /\ handled.isError <=> StartsWithError(handled.blocks[1])

---------------------------------------------------------------------------
(* Properties of the startup (Spec) *)

MissingSetting == \E i \in 1..Len(RequiredFields) : server_config[RequiredFields[i]] = ""

\* C17: with a required URL, username or token missing, the process ends
\* with the configuration error at startup: no server is created, the
\* transport is never opened, no request is read or handled and nothing is
\* written
C17_ConfigErrorAbortsStartup ==
    (phase # "Idle" /\ MissingSetting) =>
        /\ phase = "Aborted"
        /\ slot = NoHandler
        /\ registered = <<>>
        /\ sent = 0
        /\ received = <<>>
        /\ running = {}
        /\ handled = NoOutcome
        /\ outbound = <<>>

C17_Witness ==
    /\ phase = "Aborted"
    /\ server_config.jira_url # ""
    /\ server_config.confluence_url # ""
    /\ server_config.confluence_api_token = ""

---------------------------------------------------------------------------
(* Properties of single tools (HandlerSpec) *)

\* the positions of the entry marks ". [" in a listing of issues
Marks(text) == {j \in 1..Len(text) : text[j] = ". ["}

\* the position of the i-th entry mark
MarkAt(text, i) ==
    CHOOSE j \in Marks(text) : Cardinality({k \in Marks(text) : k < j}) = i - 1

\* the remote lookup of the call returned its issues
LookupReturned == call.env.rest[1] = "ok"

Contains(text, token) == \E j \in 1..Len(text) : text[j] = token

\* a listing of sprint tasks: the header count equals the number of
\* entries, and entry i is numbered i
SprintListing(text) ==
    /\ Len(text) > 2
    /\ text[1] = "Found "
    /\ text[2] = ToString(Cardinality(Marks(text)))
    /\ text[3] = " sprint task(s):\n\n"
    /\ \A i \in 1..Cardinality(Marks(text)) :
           text[MarkAt(text, i) - 1] = ToString(i)

\* C21: the request call_tool("get_my_sprint_tasks", {}) runs the handler
\* of that name, which makes its remote lookup, and unless the lookup fails
\* the one block returned is no error: the text "No sprint tasks found."
\* for no issues, otherwise a listing with one numbered entry per issue
\* whose header count equals the number of entries
C21_SprintTasksListing ==
    (handled.kind = "call_tool" /\ handled.name = "get_my_sprint_tasks"
        /\ handled.arguments = EmptyArgs)
    => /\ handled.executed = <<"get_my_sprint_tasks">>
       /\ Len(handled.rest) = 1
       /\ Len(handled.blocks) = 1
       /\ \/ ~handled.isError /\ handled.blocks[1] = <<"No sprint tasks found.">>
          \/ ~handled.isError /\ SprintListing(handled.blocks[1])
          \/ Contains(handled.blocks[1], "Failed to search Jira tickets: ")

\* the keys the remote client may return from a create
NewKeys == {NewKey(e) : e \in Envs}

\* C22: the request call_tool("create_jira_ticket") with non-empty
\* project_key, summary and description makes exactly one create call on
\* the client, and unless that call fails the one block returned is no
\* error and holds the key K returned and the URL <jira_url>/browse/K
C22_CreateReturnsKeyAndUrl ==
    (handled.kind = "call_tool" /\ handled.name = "create_jira_ticket"
        /\ ~MissingRequired(handled.name, handled.arguments))
    => /\ Len(handled.rest) = 1
       /\ handled.rest[1].op = "create_issue"
       /\ Len(handled.blocks) = 1
       /\ \/ /\ ~IsErrorResult(handled)
             /\ \E K \in NewKeys :
                    /\ Contains(handled.blocks[1], K)
                    /\ Contains(handled.blocks[1], jira_url \o "/browse/" \o K)
          \/ Contains(handled.blocks[1], "Failed to create Jira ticket: ")

---------------------------------------------------------------------------
(* Further properties of the providers (ProviderSpec) *)

\* C23: once a provider is constructed no step changes it: its kind, model,
\* tool-server path, skills directory and system prompt stay as constructed
\* through every chat call, failed or not, and get_provider_name keeps
\* returning the name of the kind the factory selected
C23_ProviderImmutable ==
    /\ [][prov.kind \in {"claude", "openai"} =>
            /\ prov'.kind = prov.kind
            /\ prov'.model = prov.model
            /\ prov'.mcp_server_path = prov.mcp_server_path
            /\ prov'.skills_dir = prov.skills_dir
            /\ prov'.system_prompt = prov.system_prompt
            /\ get_provider_name(prov') = get_provider_name(prov)]_vars
    /\ [](prov.kind \in {"claude", "openai"} =>
            get_provider_name(prov) = factory.kind)

C23_Witness ==
    /\ prov.kind = "openai"
    /\ get_provider_name(prov) = "openai"
    /\ pc = "idle"
    /\ chats = 3
    /\ failedChats = 2
    /\ ~lastChat.failed

---------------------------------------------------------------------------
(* Properties of the command line (CliSpec) *)

\* C24: a run of main that returns, returns 130 when the user interrupted
\* it and only then, 1 when the configuration is in error, and otherwise 0
\* or 1, on the legacy path and on the chat / --sdk path alike
C24_ExitCodes ==
    cli.pc = "returned" =>
        /\ cli.interrupted => cli.code = 130
        /\ cli.code = 130 => cli.interrupted
        /\ cli.config_error => cli.code = 1
        /\ cli.code \in {0, 1, 130}

ExitLines == {"quit", " EXIT ", "Q"}
HelpLines == {"help", " Help"}
EmptyLines == {"", "  "}
OtherLines == {"show my tasks", "quit now"}

\* C28: the session's loop is left exactly on an exit line or on the
\* user's interrupt, at the prompt or during chat; on end of input the error
\* is reported and the loop goes on; an exit, help or empty line calls chat
\* not at all and every other line calls it exactly once
C28_SessionLoop ==
    Len(cli.inputs) > 0 =>
        LET n == Len(cli.inputs)
            ev == cli.inputs[n]
        IN  /\ cli.pc \in {"session", "returned"}
            /\ (cli.pc = "returned") <=>
                   \/ ev \in ExitLines \cup {Interrupt}
                   \/ (ev \in OtherLines /\ cli.scen.run = "interrupt")
            /\ \A i \in 1..(n - 1) : cli.inputs[i] \notin ExitLines \cup {Interrupt}
            /\ cli.chatCalls =
                   Cardinality({i \in 1..n : cli.inputs[i] \in OtherLines})
            /\ ev = EOF => (cli.last.reported /\ cli.pc = "session")
            /\ ev \in ExitLines \cup HelpLines \cup EmptyLines \cup {EOF, Interrupt}
                   => cli.last.chat = 0
            /\ ev \in OtherLines => cli.last.chat = 1

C28_Witness ==
    /\ cli.inputs = <<EOF, "show my tasks", " EXIT ">>
    /\ cli.pc = "returned"
    /\ cli.chatCalls = 1

---------------------------------------------------------------------------
(* Properties of the Confluence tools (HandlerSpec) *)

PageIdGiven == Truthy(Get(call.arguments, "page_id", None))
TitleGiven == Truthy(Get(call.arguments, "title", None))

\* C25: get_confluence_page_content whose lookup finds nothing, by title
\* (the wiki returns no page, or fails) or by page_id (the wiki rejects it,
\* or returns no page), returns exactly one error block; and given both
\* page_id and title it performs lookups by that page_id only, for the
\* content and for the metadata
C25_NotFoundIsErrorAndIdWins ==
    call.handler = "get_confluence_page_content" =>
        /\ (~PageIdGiven /\ TitleGiven /\ call.env.rest[1] # "ok")
               => OneErrorBlock(call.result)
        /\ (PageIdGiven /\ call.env.rest[1] # "ok")
               => OneErrorBlock(call.result)
        /\ (PageIdGiven /\ TitleGiven) =>
               /\ \A j \in 1..Len(call.result.rest) :
                      call.result.rest[j] =
                          Op("get_page_by_id", <<call.arguments["page_id"]>>)
               /\ (call.env.rest[1] = "ok" /\ call.env.rest[2] = "ok") =>
                      /\ Len(call.result.rest) = 2
                      /\ ~StartsWithError(call.result.blocks[1])

C25_Witness ==
    /\ call.handler = "get_confluence_page_content"
    /\ ~PageIdGiven
    /\ TitleGiven
    /\ call.env.rest[1] = "none"
    /\ OneErrorBlock(call.result)
    /\ Len(call.result.rest) = 1

---------------------------------------------------------------------------
(* The query of get_my_sprint_tasks, as the tracker evaluates it            *)
(* (HandlerSpec)                                                           *)

\* the issues of the tracker: whose they are and the sprint they are in
RemoteIssues ==
    [assignee : {user_email, "other@example.com"},
     sprint : {"open", "future", "closed"}]

Term(kind, value) == [kind |-> kind, value |-> value]

\* the clauses and keywords of the JQL text built by get_my_issues and
\* get_sprint_issues, in the order written, up to ORDER BY
RECURSIVE JqlTerms(_, _)
JqlTerms(jql, i) ==
    IF i > Len(jql) THEN <<>>
    ELSE IF jql[i] = "assignee = \""
    THEN <<Term("assignee", jql[i + 1])>> \o JqlTerms(jql, i + 3)
    ELSE IF jql[i] = " AND "
    THEN <<Term("AND", "")>> \o JqlTerms(jql, i + 1)
    ELSE IF jql[i] = "sprint in openSprints()"
    THEN <<Term("sprint", "open")>> \o JqlTerms(jql, i + 1)
    ELSE IF jql[i] = "sprint in openSprints() OR sprint in futureSprints()"
    THEN <<Term("sprint", "open"), Term("OR", ""), Term("sprint", "future")>>
         \o JqlTerms(jql, i + 1)
    ELSE <<>>

\* the positions of the OR keywords
Ors(terms) == {j \in 1..Len(terms) : terms[j].kind = "OR"}

\* the operands of OR: the maximal runs of terms between OR keywords; AND
\* binds tighter than OR in JQL
OrOperands(terms) ==
    {r \in [from : 1..Len(terms), to : 1..Len(terms)] :
        /\ r.from <= r.to
        /\ \A j \in r.from..r.to : j \notin Ors(terms)
        /\ (r.from = 1 \/ (r.from - 1) \in Ors(terms))
        /\ (r.to = Len(terms) \/ (r.to + 1) \in Ors(terms))}

Holds(issue, term) ==
    IF term.kind = "assignee" THEN issue.assignee = term.value
    ELSE IF term.kind = "sprint" THEN issue.sprint = term.value
    ELSE TRUE

\* the tracker's answer to self.client.jql(jql): the issues matching the
\* query, a disjunction of conjunctions
JqlMatches(issue, jql) ==
    LET terms == JqlTerms(jql, 1)
    IN  \E r \in OrOperands(terms) :
            \A j \in r.from..r.to : Holds(issue, terms[j])

\* C26: every issue matching the query get_my_sprint_tasks issues is
\* assigned to the configured user, with include_future_sprints false and
\* with it true
C26_SprintTasksOnlyMine ==
    (call.handler = "get_my_sprint_tasks" /\ LookupReturned
        /\ call.env.n > 0) =>
        \A issue \in RemoteIssues :
            JqlMatches(issue, call.result.rest[1].arg)
                => issue.assignee = user_email

---------------------------------------------------------------------------
(* Properties of the mutating tools (HandlerSpec) *)

MutatingTools ==
    {"create_jira_ticket", "update_jira_ticket", "add_jira_comment",
     "create_confluence_page", "update_confluence_page"}

\* the REST operations that create or change a remote record
MutatingOps ==
    {"create_issue", "update_issue_field", "issue_add_comment",
     "create_page", "update_page"}

\* the j-th REST operation of the call was carried out by the remote side
Applied(c, j) == c.env.rest[j] = "ok"

\* the call created or changed a remote record
RemoteChanged(c) ==
    \E j \in 1..Len(c.result.rest) :
        c.result.rest[j].op \in MutatingOps /\ Applied(c, j)

\* C27: a call of a mutating tool that returns an error block has created
\* and changed no remote record
C27_ErrorMeansNoChange ==
    (call.handler \in MutatingTools /\ OneErrorBlock(call.result))
        => ~RemoteChanged(call)

---------------------------------------------------------------------------
(* Properties of successive page updates (WikiSpec) *)

\* C29: a call of update_confluence_page that writes has read the page
\* first, and its write carries the version read plus one, the title given
\* when it is non-empty and otherwise the title read, and the body only when
\* a non-empty one is given; after n calls that returned a success the
\* page's version is n greater than at the start
C29_UpdateWritesNextVersion ==
    wiki.calls > 0 =>
        LET rest == call.result.rest
            page_id == Get(call.arguments, "page_id", "")
            title == Get(call.arguments, "title", None)
            body == Get(call.arguments, "body", None)
        IN  /\ \A j \in Writes(rest) :
                   /\ j = 2
                   /\ rest[1] = Op("get_page_by_id", <<page_id>>)
                   /\ rest[j].arg =
                          <<page_id, ToString(wiki.prev.version + 1),
                            IF Truthy(title) THEN title ELSE wiki.prev.title>>
                          \o (IF Truthy(body) THEN <<body>> ELSE <<>>)
            /\ ~StartsWithError(call.result.blocks[1]) =>
                   /\ Writes(rest) = {2}
                   /\ wiki.page.version = wiki.prev.version + 1
            /\ wiki.page.version = Page(1).version + wiki.updates

C29_Witness ==
    /\ wiki.calls = 3
    /\ wiki.updates = 3
    /\ wiki.page.version = 4
    /\ wiki.page.title = "title"
    /\ Len(call.result.rest[2].arg) = 4

---------------------------------------------------------------------------
(* Properties of update_jira_ticket (HandlerSpec) *)

\* the keys of the fields forwarded in an update_issue_field operation,
\* whose argument is the issue key followed by key, value pairs
ForwardedKeys(arg) == {arg[j] : j \in {k \in 2..Len(arg) : k % 2 = 0}}

ForwardedValue(arg, key) ==
    arg[(CHOOSE j \in {k \in 2..Len(arg) : k % 2 = 0} : arg[j] = key) + 1]

\* C30: when update_jira_ticket calls the client, the fields it forwards
\* are exactly those of summary and description whose key is present in the
\* argument mapping, each with the value given, empty or not; no other key
\* of the mapping, such as status, is forwarded
C30_ForwardsPresentFieldsOnly ==
    (call.handler = "update_jira_ticket" /\ call.result.rest # <<>>) =>
        LET a == call.arguments
            fw == call.result.rest[1].arg
            present == DOMAIN a \cap {"summary", "description"}
        IN  /\ call.result.rest[1].op = "update_issue_field"
            /\ fw[1] = a["issue_key"]
            /\ Len(fw) = 1 + 2 * Cardinality(present)
            /\ ForwardedKeys(fw) = present
            /\ \A k \in present : ForwardedValue(fw, k) = a[k]
            /\ "status" \notin ForwardedKeys(fw)

C30_Witness ==
    /\ call.handler = "update_jira_ticket"
    /\ call.result.rest # <<>>
    /\ DOMAIN call.arguments = {"issue_key", "summary", "status"}
    /\ call.arguments["summary"] = ""
    /\ call.arguments["status"] = "x"
    /\ ForwardedKeys(call.result.rest[1].arg) = {"summary"}

====
